---- MODULE Spec2Model ----
(***************************************************************************)
(* A model of epcp-simulator (main.go): one run of main(), which reads     *)
(* HOURS, resolves the lookback window, fetches intraday prices in one or  *)
(* two SOAP calls, classifies the price trend and writes a frequency       *)
(* ceiling to every core but the last.                                     *)
(*                                                                         *)
(* Strings are sequences of one-character strings.  A time.Duration is an  *)
(* int64, kept as eight limbs of base Base (two's complement, least        *)
(* significant limb first) so that hoursInThePast * time.Hour wraps as it  *)
(* does in Go.  Instants are wall-clock instants of the reference zone     *)
(* taken at a fixed UTC offset: an hour count since 1970-01-01 00:00 and   *)
(* the nanoseconds into that hour; daylight-saving shifts are not          *)
(* modelled.                                                               *)
(***************************************************************************)
EXTENDS Integers, Sequences, FiniteSets, TLC

(***************************************************************************)
(* int64 arithmetic (time.Duration)                                        *)
(***************************************************************************)
Base == 256

\* the int64 of a natural number below 2^31
Word(n) ==
    <<n % Base, (n \div Base) % Base, (n \div (Base * Base)) % Base,
      n \div (Base * Base * Base), 0, 0, 0, 0>>

\* the carry into limb k of a + b: some lower limb overflows and every limb
\* between passes the carry on
Carry(a, b, k) ==
    IF \E j \in 1..(k - 1) :
           /\ a[j] + b[j] >= Base
           /\ \A m \in (j + 1)..(k - 1) : a[m] + b[m] = Base - 1
    THEN 1 ELSE 0

\* the sum of two int64 modulo 2^64
Add64(a, b) == [k \in 1..8 |-> (a[k] + b[k] + Carry(a, b, k)) % Base]

Not64(a) == [j \in 1..8 |-> Base - 1 - a[j]]

Neg64(a) == Add64(Not64(a), Word(1))

Sub64(a, b) == Add64(a, Neg64(b))

IsNeg64(a) == a[8] >= Base \div 2

\* the sum of the limb products that land on limb k
Col(a, b, k) ==
    LET T(j) == IF j <= k THEN a[j] * b[k + 1 - j] ELSE 0
    IN  T(1) + T(2) + T(3) + T(4) + T(5) + T(6) + T(7) + T(8)

\* the product of two int64 modulo 2^64: each limb is its column plus the
\* carry out of the limb below
Mul64(a, b) ==
    LET s[k \in 0..8] == IF k = 0 THEN 0 ELSE Col(a, b, k) + s[k - 1] \div Base
    IN  [k \in 1..8 |-> s[k] % Base]

\* a < b, both read as unsigned
ULt(a, b) ==
    \E j \in 1..8 : a[j] < b[j] /\ \A k \in (j + 1)..8 : a[k] = b[k]

\* the unsigned quotient of a by a divisor s below 2^23: long division from
\* the top limb down, c[k] the remainder brought down onto limb k
UDivSmall(a, s) ==
    LET c[k \in 1..9] == IF k = 9 THEN 0 ELSE a[k] + (c[k + 1] % s) * Base
    IN  [k \in 1..8 |-> c[k] \div s]

\* the value of a word below 2^31
ToInt(a) == a[1] + Base * (a[2] + Base * (a[3] + Base * a[4]))

(***************************************************************************)
(* package time: the Duration units, Time.Add, Time.Date, Time.Hour        *)
(***************************************************************************)
Nanosecond == Word(1)
Microsecond == Mul64(Word(1000), Nanosecond)
Millisecond == Mul64(Word(1000), Microsecond)
Second == Mul64(Word(1000), Millisecond)
Minute == Mul64(Word(60), Second)
Hour == Mul64(Word(60), Minute)

\* whole hours in an unsigned count of nanoseconds:
\* 3600000000000 = 8192 * 28125 * 15625
HoursIn(m) == ToInt(UDivSmall(UDivSmall(UDivSmall(m, 8192), 28125), 15625))

\* Time.Add(d): the instant t shifted by the signed duration d, whole hours
\* first and then the rest, with a borrow or a carry of one hour
TimeAdd(t, d) ==
    IF IsNeg64(d)
    THEN LET m == Neg64(d)
             q == HoursIn(m)
             r == Sub64(m, Mul64(Word(q), Hour))
             borrow == ULt(t.frac, r)
         IN  [hour |-> t.hour - q - (IF borrow THEN 1 ELSE 0),
              frac |-> IF borrow THEN Sub64(Add64(t.frac, Hour), r) ELSE Sub64(t.frac, r)]
    ELSE LET q == HoursIn(d)
             r == Sub64(d, Mul64(Word(q), Hour))
             s == Add64(t.frac, r)
             carry == ~ULt(s, Hour)
         IN  [hour |-> t.hour + q + (IF carry THEN 1 ELSE 0),
              frac |-> IF carry THEN Sub64(s, Hour) ELSE s]

\* Time.Hour(): the hour of day
HourOfDay(t) == t.hour % 24

\* Time.Date(): year, month, day of the instant (proleptic Gregorian)
DateOf(t) ==
    LET z == (t.hour \div 24) + 719468
        era == z \div 146097
        doe == z - era * 146097
        yoe == (doe - doe \div 1460 + doe \div 36524 - doe \div 146096) \div 365
        doy == doe - (365 * yoe + yoe \div 4 - yoe \div 100)
        mp == (5 * doy + 2) \div 153
        d == doy - (153 * mp + 2) \div 5 + 1
        m == IF mp < 10 THEN mp + 3 ELSE mp - 9
        y == yoe + era * 400 + (IF m <= 2 THEN 1 ELSE 0)
    IN  <<y, m, d>>

(***************************************************************************)
(* strconv and fmt: decimal text                                           *)
(***************************************************************************)
DigitChar == <<"0", "1", "2", "3", "4", "5", "6", "7", "8", "9">>

IsDigit(c) == \E k \in 1..10 : DigitChar[k] = c

DigitVal(c) == (CHOOSE k \in 1..10 : DigitChar[k] = c) - 1

RECURSIVE Digits(_)
Digits(n) ==
    IF n < 10 THEN <<DigitChar[n + 1]>>
    ELSE Digits(n \div 10) \o <<DigitChar[(n % 10) + 1]>>

\* strconv.Itoa and fmt's %d
Itoa(n) == IF n < 0 THEN <<"-">> \o Digits(0 - n) ELSE Digits(n)

RECURSIVE ZeroPad(_, _)
ZeroPad(s, w) == IF Len(s) >= w THEN s ELSE ZeroPad(<<"0">> \o s, w)

\* fmt's %0wd
PadInt(n, w) ==
    IF n < 0 THEN <<"-">> \o ZeroPad(Digits(0 - n), w - 1)
    ELSE ZeroPad(Digits(n), w)

\* fmt.Sprintf("%04d-%02d-%02d", y, m, d)
FormatDate(ymd) ==
    PadInt(ymd[1], 4) \o <<"-">> \o PadInt(ymd[2], 2) \o <<"-">> \o PadInt(ymd[3], 2)

RECURSIVE DigitsValue(_, _)
DigitsValue(s, acc) ==
    IF s = <<>> THEN acc ELSE DigitsValue(Tail(s), acc * 10 + DigitVal(Head(s)))

\* strconv.Atoi: an optional sign, then one or more digits and nothing else
Atoi(s) ==
    LET signed == s # <<>> /\ Head(s) \in {"-", "+"}
        body == IF signed THEN Tail(s) ELSE s
        ok == body # <<>> /\ \A k \in 1..Len(body) : IsDigit(body[k])
        v == IF ok THEN DigitsValue(body, 0) ELSE 0
    IN  [ok |-> ok, val |-> IF signed /\ Head(s) = "-" THEN 0 - v ELSE v]

\* strings.Split(s, sep) for a one-character separator: the pieces between
\* the ends of s and the places where sep stands
Split(s, sep) ==
    LET cuts == {0, Len(s) + 1} \cup {k \in 1..Len(s) : s[k] = sep}
        Nth(n) == CHOOSE c \in cuts : Cardinality({x \in cuts : x < c}) = n - 1
    IN  [n \in 1..(Cardinality(cuts) - 1) |-> SubSeq(s, Nth(n) + 1, Nth(n + 1) - 1)]

(***************************************************************************)
(* time.ParseDuration: an optional sign, then "0" or one or more           *)
(* <digits><unit> terms.  Fractions and the non-ASCII spellings of the     *)
(* microsecond are left out, and so are its overflow errors, which need a  *)
(* term above 2562047 hours; none of HoursValues has either.               *)
(***************************************************************************)
RECURSIVE DigitPrefixLen(_)
DigitPrefixLen(s) ==
    IF s = <<>> \/ ~IsDigit(Head(s)) THEN 0 ELSE 1 + DigitPrefixLen(Tail(s))

RECURSIVE UnitPrefixLen(_)
UnitPrefixLen(s) ==
    IF s = <<>> \/ Head(s) = "." \/ IsDigit(Head(s)) THEN 0
    ELSE 1 + UnitPrefixLen(Tail(s))

unitMap ==
    [u \in {<<"n", "s">>, <<"u", "s">>, <<"m", "s">>, <<"s">>, <<"m">>, <<"h">>} |->
        CASE u = <<"n", "s">> -> Nanosecond
          [] u = <<"u", "s">> -> Microsecond
          [] u = <<"m", "s">> -> Millisecond
          [] u = <<"s">> -> Second
          [] u = <<"m">> -> Minute
          [] u = <<"h">> -> Hour]

DurationError == [ok |-> FALSE, d |-> Word(0)]

RECURSIVE ParseTerms(_, _)
ParseTerms(s, d) ==
    IF s = <<>> THEN [ok |-> TRUE, d |-> d]
    ELSE LET n == DigitPrefixLen(s)
             rest == SubSeq(s, n + 1, Len(s))
             k == UnitPrefixLen(rest)
             u == SubSeq(rest, 1, k)
         IN  IF n = 0 THEN DurationError           \* invalid duration
             ELSE IF k = 0 THEN DurationError      \* missing unit
             ELSE IF u \notin DOMAIN unitMap THEN DurationError  \* unknown unit
             ELSE ParseTerms(SubSeq(rest, k + 1, Len(rest)),
                             Add64(d, Mul64(Word(DigitsValue(SubSeq(s, 1, n), 0)), unitMap[u])))

ParseDuration(s) ==
    LET signed == s # <<>> /\ Head(s) \in {"-", "+"}
        neg == signed /\ Head(s) = "-"
        body == IF signed THEN Tail(s) ELSE s
        r == ParseTerms(body, Word(0))
    IN  IF body = <<"0">> THEN [ok |-> TRUE, d |-> Word(0)]
        ELSE IF body = <<>> THEN DurationError
        ELSE IF ~r.ok THEN DurationError
        ELSE [ok |-> TRUE, d |-> IF neg THEN Neg64(r.d) ELSE r.d]

(***************************************************************************)
(* Bounds and the inputs of a run                                          *)
(***************************************************************************)
\* most items in one response
MaxPrices == 2
\* most cores of the host
MaxCPU == 3

\* values of the HOURS variable: unset, "-2", "-1h", "-30m", "-2ns", "0"
HoursValues ==
    { <<>>, <<"-", "2">>, <<"-", "1", "h">>, <<"-", "3", "0", "m">>,
      <<"-", "2", "n", "s">>, <<"0">> }

\* 2026-11-05 00:00 in hours since 1970-01-01 00:00
Midnight == 20762 * 24

\* instants of the run: 14:30 and 01:30 on 2026-11-05
Instants ==
    { [hour |-> Midnight + 14, frac |-> Mul64(Word(30), Minute)],
      [hour |-> Midnight + 1, frac |-> Mul64(Word(30), Minute)] }

PriceValues == {1, 2}

RECURSIVE SeqsUpTo(_, _)
SeqsUpTo(S, n) ==
    IF n = 0 THEN {<<>>}
    ELSE LET shorter == SeqsUpTo(S, n - 1)
         IN  shorter \cup {Append(q, x) : q \in {p \in shorter : Len(p) = n - 1}, x \in S}

\* the Price fields of the items of a decodable response, in document order
Bodies == SeqsUpTo(PriceValues, MaxPrices) \cup {<<5, 4, 6>>}

\* what one HTTP exchange can come to
Outcomes ==
    {[kind |-> k, items |-> <<>>] : k \in {"request", "transport", "status", "badxml"}}
    \cup {[kind |-> "ok", items |-> b] : b \in Bodies}

Text(n) == Itoa(n)
SP == <<" ">>
NL == <<"\n">>

\* states of the scaling_available_frequencies file of cpu0
CapabilityFiles ==
    { [exists |-> FALSE, readable |-> FALSE, content |-> <<>>],
      [exists |-> TRUE, readable |-> FALSE, content |-> Text(800000)] }
    \cup
    { [exists |-> TRUE, readable |-> TRUE, content |-> c] : c \in
        { <<>>,
          NL,
          Text(800000) \o SP \o Text(1200000) \o SP \o Text(1600000),
          Text(1600000) \o SP \o Text(1200000) \o SP \o Text(800000) \o SP \o NL,
          Text(800000) \o SP \o Text(1200000) \o SP \o Text(1600000) \o NL,
          Text(800000) \o NL \o Text(1600000),
          <<"x">> \o SP \o Text(800000),
          Text(20000000) \o SP \o Text(30000000) } }

(***************************************************************************)
(* The program                                                             *)
(***************************************************************************)
VARIABLES
    pc,              \* where main() is
    HOURS,           \* the environment variable
    now,             \* time.Now().In(loc)
    numCPU,          \* runtime.NumCPU()
    hoursInThePast,  \* the global set by getEnvironmentVariables
    times,           \* *Times
    requests,        \* the GetImPriceE calls made, oldest first
    replies,         \* what each call came to
    prices1,         \* prices of the earlier day
    prices,          \* the series getElectrictyPrices returns
    capFile,         \* the capability file as scaleCPUFrequency found it
    dec, inc,        \* the counts of scaleCPUFrequency
    minF, maxF,      \* its frequency range
    i,               \* its loop index
    writes           \* the writeFile calls made, oldest first

vars == <<pc, HOURS, now, numCPU, hoursInThePast, times, requests, replies,
          prices1, prices, capFile, dec, inc, minF, maxF, i, writes>>

NoTimes == [startDate |-> <<>>, endDate |-> <<>>, startHour |-> <<>>, endHour |-> <<>>]
NoFile == [exists |-> FALSE, readable |-> FALSE, content |-> <<>>]

Init ==
    /\ pc = "env"
    /\ HOURS \in HoursValues
    /\ now \in Instants
    /\ numCPU \in 1..MaxCPU
    /\ hoursInThePast = Word(0)
    /\ times = NoTimes
    /\ requests = <<>>
    /\ replies = <<>>
    /\ prices1 = <<>>
    /\ prices = <<>>
    /\ capFile = NoFile
    /\ dec = 0
    /\ inc = 0
    /\ minF = 0
    /\ maxF = 0
    /\ i = 0
    /\ writes = <<>>

\* getEnvironmentVariables: the value left in hoursInThePast
ParseHours(hours) ==
    IF Len(hours) = 0 THEN Neg64(Word(3))
    ELSE LET r == ParseDuration(hours)
         IN  IF r.ok THEN r.d ELSE Neg64(Word(3))

getEnvironmentVariables ==
    /\ pc = "env"
    /\ hoursInThePast' = ParseHours(HOURS)
    /\ pc' = "time"
    /\ UNCHANGED <<HOURS, now, numCPU, times, requests, replies, prices1, prices,
                   capFile, dec, inc, minF, maxF, i, writes>>

\* getTimeRange: the Times it returns at instant t with offset h
TimeRange(t, h) ==
    LET before == TimeAdd(t, Mul64(h, Hour))
    IN  [startHour |-> Itoa(HourOfDay(before)),
         endHour |-> Itoa(HourOfDay(t)),
         startDate |-> FormatDate(DateOf(before)),
         endDate |-> FormatDate(DateOf(t))]

getTimeRange ==
    /\ pc = "time"
    /\ times' = TimeRange(now, hoursInThePast)
    /\ pc' = "prices"
    /\ UNCHANGED <<HOURS, now, numCPU, hoursInThePast, requests, replies, prices1,
                   prices, capFile, dec, inc, minF, maxF, i, writes>>

(***************************************************************************)
(* The market data client                                                  *)
(***************************************************************************)
NilResponse == [kind |-> "nil", items |-> <<>>]

\* sendRequest: nil unless the exchange ends with status "200 OK"
sendRequest(o) ==
    IF o.kind = "request" THEN NilResponse          \* http.NewRequest failed
    ELSE IF o.kind = "transport" THEN NilResponse   \* client.Do failed
    ELSE IF o.kind = "status" THEN NilResponse      \* res.Status != "200 OK"
    ELSE o

\* extractPricesFromGetImPriceE: the Price of every item, or the decode error
extractPricesFromGetImPriceE(res) ==
    IF res.kind = "badxml" THEN [prices |-> <<>>, err |-> TRUE]
    ELSE [prices |-> [k \in 1..Len(res.items) |-> res.items[k]], err |-> FALSE]

\* GetImPriceE: the four arguments put into the envelope
GetImPriceE(startDate, endDate, startHour, endHour) ==
    <<startDate, endDate, startHour, endHour>>

(***************************************************************************)
(* getElectrictyPrices                                                     *)
(***************************************************************************)
\* slices.Concat with its arguments exchanged
ConcatSwapped(a, b) == b \o a

\* slices.Concat
Concat(a, b) == a \o b

\* the call for the earlier day of a two-day window
PreviousDayRequest(t) == GetImPriceE(t.startDate, t.startDate, t.startHour, <<"2", "4">>)

\* the call for the later day of a two-day window
ThisDayRequest(t) == GetImPriceE(t.endDate, t.endDate, <<"0">>, t.endHour)

\* the one-day call cut at midnight like the first call of a two-day window
TodayRequestToMidnight(t) == GetImPriceE(t.startDate, t.startDate, t.startHour, <<"2", "4">>)

\* the call for a one-day window
TodayRequest(t) == GetImPriceE(t.startDate, t.endDate, t.startHour, t.endHour)

\* the first call treated like the second: a decode error returns too
AfterPreviousDayStrict(o) ==
    LET htr == sendRequest(o)
        r == extractPricesFromGetImPriceE(htr)
    IN  IF htr = NilResponse \/ r.err
        THEN [return |-> TRUE, prices1 |-> <<>>]
        ELSE [return |-> FALSE, prices1 |-> r.prices]

\* after the first call of a two-day window: return, or go on with prices1
AfterPreviousDay(o) ==
    LET htr == sendRequest(o)
    IN  IF htr = NilResponse
        THEN [return |-> TRUE, prices1 |-> <<>>]
        ELSE [return |-> FALSE, prices1 |-> extractPricesFromGetImPriceE(htr).prices]

\* the second call failing with the earlier day's prices returned
AfterThisDayKeepFirst(p1, o) ==
    LET htr == sendRequest(o)
        r == extractPricesFromGetImPriceE(htr)
    IN  IF htr = NilResponse THEN p1
        ELSE IF r.err THEN p1
        ELSE Concat(p1, r.prices)

\* after the second call of a two-day window: the series returned
AfterThisDay(p1, o) ==
    LET htr == sendRequest(o)
        r == extractPricesFromGetImPriceE(htr)
    IN  IF htr = NilResponse THEN <<>>
        ELSE IF r.err THEN <<>>
        ELSE Concat(p1, r.prices)

\* after the call of a one-day window: the series returned
AfterToday(o) ==
    LET htr == sendRequest(o)
    IN  IF htr = NilResponse THEN <<>>
        ELSE extractPricesFromGetImPriceE(htr).prices

FetchPreviousDay ==
    /\ pc = "prices"
    /\ times.startDate # times.endDate
    /\ \E o \in Outcomes :
         LET r == AfterPreviousDay(o)
         IN  /\ requests' = Append(requests, PreviousDayRequest(times))
             /\ replies' = Append(replies, o)
             /\ prices1' = r.prices1
             /\ pc' = IF r.return THEN "scale" ELSE "thisday"
    /\ UNCHANGED <<HOURS, now, numCPU, hoursInThePast, times, prices, capFile,
                   dec, inc, minF, maxF, i, writes>>

FetchThisDay ==
    /\ pc = "thisday"
    /\ \E o \in Outcomes :
         /\ requests' = Append(requests, ThisDayRequest(times))
         /\ replies' = Append(replies, o)
         /\ prices' = AfterThisDay(prices1, o)
    /\ pc' = "scale"
    /\ UNCHANGED <<HOURS, now, numCPU, hoursInThePast, times, prices1, capFile,
                   dec, inc, minF, maxF, i, writes>>

FetchToday ==
    /\ pc = "prices"
    /\ times.startDate = times.endDate
    /\ \E o \in Outcomes :
         /\ requests' = Append(requests, TodayRequest(times))
         /\ replies' = Append(replies, o)
         /\ prices' = AfterToday(o)
    /\ pc' = "scale"
    /\ UNCHANGED <<HOURS, now, numCPU, hoursInThePast, times, prices1, capFile,
                   dec, inc, minF, maxF, i, writes>>

(***************************************************************************)
(* scaleCPUFrequency                                                       *)
(***************************************************************************)
\* the comparison with < in place of <=
PriceLt(a, b) == a < b

\* prices[i+1] <= prices[i] on float32
PriceLe(a, b) == a <= b

\* the bounds check of prices[k]
InRange(p, k) == 0 <= k /\ k < Len(p)

RECURSIVE CountFrom(_, _, _, _)
CountFrom(p, k, d, n) ==
    IF ~(k < Len(p) - 1) THEN [dec |-> d, inc |-> n, panic |-> FALSE]
    ELSE IF ~(InRange(p, k + 1) /\ InRange(p, k))
         THEN [dec |-> d, inc |-> n, panic |-> TRUE]
    ELSE IF PriceLe(p[k + 2], p[k + 1]) THEN CountFrom(p, k + 1, d + 1, n)
    ELSE CountFrom(p, k + 1, d, n + 1)

\* the comparator loop: k is the Go index, p[k + 1] the Go prices[k]
Trend(p) == CountFrom(p, 0, 0, 0)

readFile(f) ==
    IF ~f.exists THEN <<>>
    ELSE IF ~f.readable THEN <<>>
    ELSE f.content

getAvailableCPUFrequencies(f) ==
    LET fc == readFile(f)
    IN  IF fc = <<>> THEN <<>> ELSE Split(fc, " ")

MinStart == 10000000
MaxStart == 0

RECURSIVE RangeFrom(_, _, _)
RangeFrom(frequencies, lo, hi) ==
    IF frequencies = <<>> THEN [minF |-> lo, maxF |-> hi]
    ELSE LET f == Atoi(Head(frequencies))
         IN  IF f.ok
             THEN RangeFrom(Tail(frequencies),
                            IF f.val < lo THEN f.val ELSE lo,
                            IF f.val > hi THEN f.val ELSE hi)
             ELSE RangeFrom(Tail(frequencies), lo, hi)

\* minF and maxF after the loop over the available frequencies
FrequencyRange(frequencies) == RangeFrom(frequencies, MinStart, MaxStart)

\* the frequency written: minF on rising prices, maxF otherwise
Target(d, n, lo, hi) == IF d < n THEN lo ELSE hi

\* the loop over the cores running over all of them
MoreCoresAll(k, n) == k < n

\* the condition of the loop over the cores
MoreCores(k, n) == k < n - 1

scaleCPUFrequency ==
    /\ pc = "scale"
    /\ LET t == Trend(prices)
       IN  IF t.panic
           THEN /\ pc' = "panic"
                /\ UNCHANGED <<capFile, dec, inc, minF, maxF, i>>
           ELSE /\ \E f \in CapabilityFiles :
                     LET r == FrequencyRange(getAvailableCPUFrequencies(f))
                     IN  /\ capFile' = f
                         /\ minF' = r.minF
                         /\ maxF' = r.maxF
                /\ dec' = t.dec
                /\ inc' = t.inc
                /\ i' = 0
                /\ pc' = "write"
    /\ UNCHANGED <<HOURS, now, numCPU, hoursInThePast, times, requests, replies,
                   prices1, prices, writes>>

\* one turn of the loop: writeFile on cpu i, which succeeds or fails
WriteCore ==
    /\ pc = "write"
    /\ MoreCores(i, numCPU)
    /\ \E ok \in BOOLEAN :
         writes' = Append(writes, [cpu |-> i, text |-> Itoa(Target(dec, inc, minF, maxF)), ok |-> ok])
    /\ i' = i + 1
    /\ UNCHANGED <<pc, HOURS, now, numCPU, hoursInThePast, times, requests, replies,
                   prices1, prices, capFile, dec, inc, minF, maxF>>

Return ==
    /\ pc = "write"
    /\ ~MoreCores(i, numCPU)
    /\ pc' = "done"
    /\ UNCHANGED <<HOURS, now, numCPU, hoursInThePast, times, requests, replies,
                   prices1, prices, capFile, dec, inc, minF, maxF, i, writes>>

Next ==
    \/ getEnvironmentVariables
    \/ getTimeRange
    \/ FetchPreviousDay
    \/ FetchThisDay
    \/ FetchToday
    \/ scaleCPUFrequency
    \/ WriteCore
    \/ Return

Spec == Init /\ [][Next]_vars

(***************************************************************************)
(* Properties                                                              *)
(***************************************************************************)
\* getElectrictyPrices has returned
Fetched == pc \in {"scale", "write", "done", "panic"}

\* the comparator and the frequency range of scaleCPUFrequency are computed
Scaled == pc \in {"write", "done"}

\* the window spans two calendar days
TwoDay == times.startDate # times.endDate

\* the outcomes after which sendRequest has no response to return
NoResponse == {"request", "transport", "status"}

PreviousDayArgs == <<times.startDate, times.startDate, times.startHour, <<"2", "4">>>>
ThisDayArgs == <<times.endDate, times.endDate, <<"0">>, times.endHour>>
TodayArgs == <<times.startDate, times.endDate, times.startHour, times.endHour>>

\* C1 as stated: in a two-day window, however the first sub-fetch fails
\* (transport error, non-200 status or decode error), the second sub-fetch
\* is still issued, and the series returned is the second's prices when it
\* succeeds.
C1_AnyFirstFailureContinues ==
    (Fetched /\ TwoDay /\ replies[1].kind \in {"transport", "status", "badxml"}) =>
        /\ Len(requests) = 2
        /\ requests[2] = ThisDayArgs
        /\ (replies[2].kind = "ok" => prices = replies[2].items)

\* C1 amended: in a two-day window, when the first sub-fetch gets a
\* "200 OK" response that fails to decode, the second sub-fetch is still
\* issued and the series returned is the second's prices when it succeeds;
\* when the first sub-fetch gets no response (request, transport or status
\* error), no second sub-fetch is issued and the series returned is empty.
C1_DecodeFailureContinues ==
    (Fetched /\ TwoDay) =>
        /\ (replies[1].kind = "badxml" =>
              /\ Len(requests) = 2
              /\ requests[2] = ThisDayArgs
              /\ (replies[2].kind = "ok" => prices = replies[2].items))
        /\ (replies[1].kind \in NoResponse =>
              /\ Len(requests) = 1
              /\ prices = <<>>)

C1_Witness ==
    /\ pc = "scale"
    /\ TwoDay
    /\ Len(replies) = 2
    /\ replies[1].kind = "badxml"
    /\ replies[2].kind = "ok"
    /\ Len(replies[2].items) = 2
    /\ prices = replies[2].items

\* the integers scaleCPUFrequency parses out of the capability file
ParsedFrequencies ==
    LET toks == getAvailableCPUFrequencies(capFile)
    IN  {Atoi(toks[k]).val : k \in {j \in 1..Len(toks) : Atoi(toks[j]).ok}}

\* C2 as stated: every value written to a core's scaling_max_freq is one of
\* the integers parsed from the capability file, with min <= max; with no
\* parsable entry nothing of the kind exists, so neither 10000000 nor 0 is
\* written.
C2_WritesOnlyReportedFrequencies ==
    \A k \in 1..Len(writes) :
        /\ writes[k].text \in {Itoa(f) : f \in ParsedFrequencies}
        /\ minF <= maxF

\* the duration HOURS stands for: its value as a duration string, or three
\* hours back when it is unset or does not parse
ConfiguredOffset ==
    IF Len(HOURS) = 0 \/ ~ParseDuration(HOURS).ok
    THEN Neg64(Mul64(Word(3), Hour))
    ELSE ParseDuration(HOURS).d

\* a <= b for two dates in the form YYYY-MM-DD
DateLe(a, b) ==
    \/ a = b
    \/ \E k \in 1..Len(a) :
         /\ \A j \in 1..(k - 1) : a[j] = b[j]
         /\ IsDigit(a[k]) /\ IsDigit(b[k])
         /\ DigitVal(a[k]) < DigitVal(b[k])

\* C3 as stated: for an offset o <= 0, getTimeRange returns the date and
\* hour of t+o as the start and those of t as the end, so that
\* startDate <= endDate.
C3_WindowIsOffsetBeforeNow ==
    (pc \notin {"env", "time"} /\ (IsNeg64(ConfiguredOffset) \/ ConfiguredOffset = Word(0))) =>
        LET before == TimeAdd(now, ConfiguredOffset)
        IN  /\ times.startHour = Itoa(HourOfDay(before))
            /\ times.endHour = Itoa(HourOfDay(now))
            /\ times.startDate = FormatDate(DateOf(before))
            /\ times.endDate = FormatDate(DateOf(now))
            /\ DateLe(times.startDate, times.endDate)
            /\ (TwoDay <=> DateOf(before) # DateOf(now))

\* 14:30 on 2026-11-05
HalfPastTwo == [hour |-> Midnight + 14, frac |-> Mul64(Word(30), Minute)]

\* C4 as stated: with HOURS "-2" at 14:30, the run issues one fetch for
\* hours 12 to 14 of the current date; on the prices 5, 4, 6 it counts one
\* decrease and one increase and writes the maximum frequency to each core
\* 0..N-2.
C4_EndToEnd ==
    ( /\ pc = "done"
      /\ HOURS = <<"-", "2">>
      /\ now = HalfPastTwo
      /\ replies = <<[kind |-> "ok", items |-> <<5, 4, 6>>]>> ) =>
        /\ requests = << <<FormatDate(DateOf(now)), FormatDate(DateOf(now)),
                           <<"1", "2">>, <<"1", "4">>>> >>
        /\ dec = 1
        /\ inc = 1
        /\ Len(writes) = numCPU - 1
        /\ \A k \in 1..Len(writes) :
             writes[k].cpu = k - 1 /\ writes[k].text = Itoa(maxF)

\* C5 as stated: a two-day window issues exactly two fetches, the earlier
\* day up to hour 24 and then the later day from hour 0, and when both
\* succeed the series is the first's prices followed by the second's.
C5_AlwaysTwoFetches ==
    (Fetched /\ TwoDay) =>
        /\ requests = <<PreviousDayArgs, ThisDayArgs>>
        /\ ((replies[1].kind = "ok" /\ replies[2].kind = "ok") =>
              prices = replies[1].items \o replies[2].items)

\* C5 amended: a two-day window issues first the fetch of the earlier day
\* up to hour 24; when that fetch gets a "200 OK" response it then issues
\* the fetch of the later day from hour 0 and nothing more, and when it
\* gets no response it issues nothing more; no fetch is repeated; when both
\* succeed the series is the first's prices followed by the second's.
C5_TwoFetchesInOrder ==
    /\ \A j, k \in 1..Len(requests) : requests[j] = requests[k] => j = k
    /\ (pc = "thisday" => requests = <<PreviousDayArgs>>)
    /\ (Fetched /\ TwoDay) =>
          /\ (replies[1].kind \notin NoResponse =>
                requests = <<PreviousDayArgs, ThisDayArgs>>)
          /\ (replies[1].kind \in NoResponse => requests = <<PreviousDayArgs>>)
          /\ ((Len(replies) = 2 /\ replies[1].kind = "ok" /\ replies[2].kind = "ok") =>
                prices = replies[1].items \o replies[2].items)

C5_Witness ==
    /\ pc = "scale"
    /\ TwoDay
    /\ Len(requests) = 2
    /\ replies[1].kind = "ok"
    /\ replies[2].kind = "ok"
    /\ replies[1].items = <<1, 2>>
    /\ replies[2].items = <<2, 1>>
    /\ prices = <<1, 2, 2, 1>>

\* C6: when the second sub-fetch of a two-day window fails, or the only
\* fetch of a one-day window fails, the series returned is empty, whatever
\* the first sub-fetch returned; scaleCPUFrequency then counts nothing on
\* it and reads no index out of range.
C6_FailureGivesEmptySeries ==
    /\ pc # "panic"
    /\ Fetched =>
          /\ (TwoDay /\ Len(replies) = 2 /\ replies[2].kind # "ok") => prices = <<>>
          /\ (~TwoDay /\ replies[1].kind # "ok") => prices = <<>>
    /\ (Scaled /\ prices = <<>>) => (dec = 0 /\ inc = 0)

C6_Witness ==
    /\ pc = "done"
    /\ TwoDay
    /\ Len(replies) = 2
    /\ replies[1].kind = "ok"
    /\ replies[1].items # <<>>
    /\ replies[2].kind = "badxml"
    /\ prices = <<>>
    /\ dec = 0
    /\ inc = 0

\* C7: dec counts the adjacent pairs with later <= earlier and inc the
\* others, so dec + inc = max(len - 1, 0); the value written is minF
\* exactly when inc > dec and maxF otherwise.
C7_TrendDecides ==
    Scaled =>
        LET n == Len(prices)
            falls == {k \in 1..(n - 1) : prices[k + 1] <= prices[k]}
            rises == {k \in 1..(n - 1) : ~(prices[k + 1] <= prices[k])}
        IN  /\ dec = Cardinality(falls)
            /\ inc = Cardinality(rises)
            /\ dec + inc = (IF n >= 1 THEN n - 1 ELSE 0)
            /\ \A k \in 1..Len(writes) :
                 writes[k].text = (IF inc > dec THEN Itoa(minF) ELSE Itoa(maxF))

C7_Witness ==
    /\ pc = "done"
    /\ prices = <<1, 2, 1, 2>>
    /\ dec = 1
    /\ inc = 2
    /\ minF < maxF
    /\ Len(writes) > 0
    /\ writes[1].text = Itoa(minF)

\* C8: the cores 0..N-2 get one write attempt each, in ascending order and
\* with one value; core N-1 gets none; a failed write stops nothing.
C8_OneWritePerCoreButLast ==
    /\ Len(writes) <= numCPU - 1
    /\ \A k \in 1..Len(writes) :
         /\ writes[k].cpu = k - 1
         /\ writes[k].text = writes[1].text
    /\ pc = "write" => Len(writes) = i
    /\ pc = "done" => Len(writes) = numCPU - 1

C8_Witness ==
    /\ pc = "done"
    /\ numCPU = 3
    /\ Len(writes) = 2
    /\ ~writes[1].ok
    /\ writes[2].ok
    /\ writes[2].cpu = 1

\* C9: a one-day window issues exactly one fetch, with the arguments
\* (startDate, endDate, startHour, endHour), and returns its prices in
\* response order when it succeeds.
C9_OneFetch ==
    (Fetched /\ ~TwoDay) =>
        /\ requests = <<TodayArgs>>
        /\ Len(replies) = 1
        /\ (replies[1].kind = "ok" => prices = replies[1].items)

C9_Witness ==
    /\ pc = "scale"
    /\ ~TwoDay
    /\ times.startHour # times.endHour
    /\ replies = <<[kind |-> "ok", items |-> <<2, 1>>]>>
    /\ prices = <<2, 1>>

IsSpace(c) == c \in {" ", "\n"}

\* the entries of a list delimited by spaces and newlines
Fields(s) ==
    {SubSeq(s, ab[1], ab[2]) : ab \in
        {cd \in (1..Len(s)) \X (1..Len(s)) :
            /\ cd[1] <= cd[2]
            /\ \A k \in cd[1]..cd[2] : ~IsSpace(s[k])
            /\ (cd[1] = 1 \/ IsSpace(s[cd[1] - 1]))
            /\ (cd[2] = Len(s) \/ IsSpace(s[cd[2] + 1]))}}

\* the integers among the entries of the capability file
ListedFrequencies == {Atoi(f).val : f \in {g \in Fields(capFile.content) : Atoi(g).ok}}

\* C10 as stated: for a capability file holding a list of integers
\* delimited by spaces and newlines, minF and maxF are the least and the
\* greatest integer of the list, entries that are no integers being skipped.
C10_RangeOfListedFrequencies ==
    (Scaled /\ capFile.exists /\ capFile.readable /\ ListedFrequencies # {}) =>
        /\ minF \in ListedFrequencies
        /\ maxF \in ListedFrequencies
        /\ \A f \in ListedFrequencies : minF <= f /\ f <= maxF


====
